---- MODULE Spec2Model ----
(***************************************************************************)
(* The EEG post-recording pipeline of src/post-recording: loading a CSV     *)
(* recording, optional truncation, epoching, artifact rejection (sparse or  *)
(* adaptive with a post-pass), spectral estimation, band powers, ratios and *)
(* saving.                                                                  *)
(*                                                                          *)
(* Time is counted in samples.  A duration in seconds is held in half       *)
(* seconds (durH = 4 is the 2.0 s of the pipeline) so that the rounding of  *)
(* duration * sfreq to a sample count is a real computation.  Signal        *)
(* amplitudes are small integers.  Calls into mne / autoreject / numpy are  *)
(* modelled by their documented contract; where the contract leaves the     *)
(* result open (a fitted threshold, an I/O failure) every outcome is        *)
(* allowed.                                                                 *)
(***************************************************************************)
EXTENDS Integers, Sequences, FiniteSets, TLC

\* ---------------------------------------------------------------- bounds
MaxSamples == 23
MaxAmp == 2

\* ------------------------------------------------------ program constants
\* preprocessing.py:78 / :122 -- the epoch count that selects the policy
MinEpochsForAutoReject == 10
\* preprocessing.py:103 -- cv_folds = min(5, n_epochs // 2)
MaxCvFolds == 5
\* process_eeg.py:113, psd_analysis.py:264, preprocessing.py:11 -- 2.0 s, in half seconds
DefaultEpochDurH == 4

\* ----------------------------------------------------------------- inputs
Drivers == {"process_eeg", "psd_main", "preprocess_raw"}
Waves == {"flat", "alt", "spike", "burst"}
SampleRates == {1, 3}
\* --seconds values tried by the process_eeg driver (integer seconds)
SecondsValues == {-1, 0, 1, 3, 1000}
\* epoch_duration values (half seconds) a direct caller of preprocess_raw may pass
DurHValues == {-2, 0, 1, 3, 4}

\* ---------------------------------------------------------------- helpers
Min2(a, b) == IF a <= b THEN a ELSE b
Max2(a, b) == IF a >= b THEN a ELSE b

RECURSIVE SumSeq(_)
SumSeq(s) == IF s = <<>> THEN 0 ELSE Head(s) + SumSeq(Tail(s))

RECURSIVE SelectIdx(_, _)
\* the subsequence of s (order kept) of the elements in the set keep
SelectIdx(s, keep) ==
    IF s = <<>> THEN <<>>
    ELSE IF Head(s) \in keep THEN <<Head(s)>> \o SelectIdx(Tail(s), keep)
         ELSE SelectIdx(Tail(s), keep)

Range(s) == {s[i] : i \in 1..Len(s)}

\* int(round(x)) for x = num/den, den > 0: Python and numpy round half to even
RoundHalfEven(num, den) ==
    LET q == num \div den
        r == num % den
    IN  IF 2 * r < den THEN q
        ELSE IF 2 * r > den THEN q + 1
        ELSE IF q % 2 = 0 THEN q ELSE q + 1

\* The recording: sample i (0-based) of the frontal channels of a CSV, as a level.
Wave(w, i) ==
    CASE w = "flat"  -> 1
      [] w = "alt"   -> 1 + (i % 2)
      [] w = "spike" -> IF i = 4 THEN MaxAmp ELSE 0
      [] w = "burst" -> IF i < 6 THEN i % 2
                        ELSE IF i < 12 THEN MaxAmp * (i % 2) ELSE 0

VARIABLES
    driver,         \* which entry point runs
    csv,            \* the input recording: [n, wave, sfreq]
    seconds,        \* the --seconds argument: [given, val]
    durH,           \* epoch_duration passed to preprocess_raw, in half seconds
    pc,             \* position in the pipeline
    err,            \* kind of the exception that ended the run, or "none"
    errAt,          \* the function whose frame raised it
    raw,            \* the caller's Raw: [data, sfreq]
    work,           \* preprocess_raw's own filtered copy of the samples
    events,         \* onsets (sample index) from make_fixed_length_events
    nper,           \* samples held by one epoch
    epochs,         \* epochs.selection: the event indices of the segmented epochs
    clean,          \* epochs_clean.selection
    bad_epochs,     \* reject_log.bad_epochs, indexed 0..len(epochs)-1
    passes,         \* the rejection passes run: [kind, basis, thresh, out]
    report,         \* get_preprocessing_report's counts
    rows,           \* row counts of the tables produced: [psd, band, ratio, df]
    results,        \* keys of process_eeg_recording's results dict
    stages,         \* the stages executed so far, in order
    df,             \* the rows of create_results_dataframe: [epoch, channel]
    spectrum,       \* a call of the band-power functions on a frequency axis
    batch,          \* a run of batch_process_recordings over a directory
    loader          \* csv_to_edf's choice of sampling rate for a recording

vars == <<driver, csv, seconds, durH, pc, err, errAt, raw, work, events, nper,
          epochs, clean, bad_epochs, passes, report, rows, results, stages,
          df, spectrum, batch, loader>>

inputs == <<driver, csv, seconds, durH>>
segvars == <<work, events, nper, epochs>>
rejvars == <<clean, bad_epochs, passes>>
aux == <<spectrum, batch, loader>>

NoSeconds == [given |-> FALSE, val |-> 0]
NoRaw == [data |-> <<>>, sfreq |-> 0]
NoReport == [n_epochs_final |-> -1, n_epochs_rejected |-> -1]
NoRows == [psd |-> -1, band |-> -1, ratio |-> -1, df |-> -1]
NoSpectrum == [pc |-> "off"]
NoBatch == [pc |-> "off"]
NoLoader == [pc |-> "off"]

Init ==
    /\ driver \in Drivers
    /\ csv \in [n : 1..MaxSamples, wave : Waves, sfreq : SampleRates]
    /\ seconds \in {NoSeconds} \cup [given : {TRUE}, val : SecondsValues]
    /\ (driver # "process_eeg" => seconds = NoSeconds)
    /\ durH \in DurHValues
    /\ (driver # "preprocess_raw" => durH = DefaultEpochDurH)
    /\ pc = "convert"
    /\ err = "none"
    /\ errAt = "none"
    /\ raw = NoRaw
    /\ work = <<>>
    /\ events = <<>>
    /\ nper = 0
    /\ epochs = <<>>
    /\ clean = <<>>
    /\ bad_epochs = <<>>
    /\ passes = <<>>
    /\ report = NoReport
    /\ rows = NoRows
    /\ results = IF driver = "process_eeg" THEN {"input_file", "output_dir"} ELSE {}
    /\ stages = <<>>
    /\ df = <<>>
    /\ spectrum = NoSpectrum
    /\ batch = NoBatch
    /\ loader = NoLoader

Raise(kind, fn) ==
    /\ pc' = "failed"
    /\ err' = kind
    /\ errAt' = fn

\* ------------------------------------------------------------- conversion
\* csv_to_edf: the recording becomes a Raw of n samples at the chosen rate.
CsvToEdf ==
    /\ pc = "convert"
    /\ raw' = [data |-> [i \in 1..csv.n |-> Wave(csv.wave, i - 1)], sfreq |-> csv.sfreq]
    /\ stages' = Append(stages, "convert")
    /\ results' = IF driver = "process_eeg" THEN results \cup {"edf_file"} ELSE results
    /\ pc' = IF driver = "process_eeg" THEN "truncate" ELSE "segment"
    /\ UNCHANGED <<inputs, aux, df, err, errAt, segvars, rejvars, report, rows>>

\* reading the CSV or exporting the EDF file fails inside pandas / mne
CsvToEdfFails ==
    /\ pc = "convert"
    /\ Raise("LibraryError", "csv_to_edf")
    /\ UNCHANGED <<inputs, aux, df, raw, segvars, rejvars, report, rows, results, stages>>

\* ------------------------------------------------------------- truncation
\* raw.times[-1] in samples: the time of the last sample
TotalDurationTicks(r) == Len(r.data) - 1

\* mutant: tmax taken from seconds without the clamp
TmaxTicks_Unclamped(sec, r) == sec * r.sfreq

\* tmax = min(float(seconds), total_duration_sec), in samples
TmaxTicks(sec, r) == Min2(sec * r.sfreq, TotalDurationTicks(r))

\* Raw.crop(tmin=0.0, tmax): keeps samples 0..tmax inclusive; mne raises a
\* ValueError when tmax lies beyond the last sample
Crop(r, tmax) ==
    IF tmax > TotalDurationTicks(r) \/ tmax < 0
    THEN [ok |-> FALSE, raw |-> r]
    ELSE [ok |-> TRUE, raw |-> [r EXCEPT !.data = SubSeq(r.data, 1, tmax + 1)]]

\* mutant: zero seconds let through
SecondsRejected_Strict(sec) == sec < 0

\* line 89: if seconds <= 0: raise ValueError
SecondsRejected(sec) == sec <= 0

Truncate ==
    /\ pc = "truncate"
    /\ IF ~seconds.given
       THEN /\ pc' = "segment"
            /\ UNCHANGED <<raw, err, errAt, stages>>
       ELSE IF SecondsRejected(seconds.val)
       THEN /\ Raise("ValueError", "process_eeg_recording")
            /\ UNCHANGED <<raw, stages>>
       ELSE LET c == Crop(raw, TmaxTicks(seconds.val, raw))
            IN  IF c.ok
                THEN /\ raw' = c.raw
                     /\ pc' = "segment"
                     /\ stages' = Append(stages, "truncate")
                     /\ UNCHANGED <<err, errAt>>
                ELSE /\ Raise("ValueError", "crop")
                     /\ UNCHANGED <<raw, stages>>
    /\ UNCHANGED <<inputs, aux, df, segvars, rejvars, report, rows, results>>

\* ----------------------------------------------------------- segmentation
\* raw.filter(0.5, 40): the band-pass removes the DC level (integer mean here)
Filter(data) ==
    IF data = <<>> THEN <<>>
    ELSE LET m == SumSeq(data) \div Len(data)
         IN  [i \in 1..Len(data) |-> data[i] - m]

\* n_per_epoch = int(round(sfreq * duration))
NPerEpoch(sfreq, dH) == RoundHalfEven(sfreq * dH, 2)

\* mutant: an empty event list handed on instead of raised
MakeFixedLengthEvents_NoRaise(n_times, sfreq, dH) ==
    LET stop   == n_times - RoundHalfEven(sfreq * dH, 2)
        stride == Max2(RoundHalfEven(sfreq * dH, 2), 1)
        cnt    == IF stop < 0 THEN 0 ELSE (stop \div stride) + 1
    IN  [ok |-> TRUE, ts |-> [k \in 1..cnt |-> (k - 1) * stride]]

\* mne.make_fixed_length_events(raw, duration, overlap=0.0): rejects a duration
\* that is not > overlap; onsets 0, stride, 2*stride, ... <= n_times - n_per_epoch;
\* raises when no onset fits
MakeFixedLengthEvents(n_times, sfreq, dH) ==
    IF ~(dH > 0) THEN [ok |-> FALSE, ts |-> <<>>]
    ELSE LET stop   == n_times - NPerEpoch(sfreq, dH)
             stride == Max2(NPerEpoch(sfreq, dH), 1)
             cnt    == IF stop < 0 THEN 0 ELSE (stop \div stride) + 1
         IN  [ok |-> cnt > 0, ts |-> [k \in 1..cnt |-> (k - 1) * stride]]

\* mne.Epochs(raw, events, tmin=0, tmax=epoch_duration): an epoch holds the
\* samples of [onset + tmin, onset + tmax], both ends included
EpochSamples(sfreq, dH) == RoundHalfEven(sfreq * dH, 2) - 0 + 1

\* preload=True drops the events whose window runs past the data (TOO_SHORT);
\* selection keeps the 0-based indices of the events that remain
EpochSelection(ts, n_times, len) ==
    SelectIdx([k \in 1..Len(ts) |-> k - 1],
              {k \in 0..(Len(ts) - 1) : ts[k + 1] + len <= n_times})

\* mutant: the filter run on the object the caller passed
FilterOperand_Caller == "caller"

\* line 34, raw = raw.copy(): from here on the name raw inside preprocess_raw is
\* a new object, and filter (42), ICA (53) and Epochs (63) work on that one
FilterOperand == "copy"

Segment ==
    /\ pc = "segment"
    /\ LET f  == Filter(raw.data)
           ev == MakeFixedLengthEvents(Len(f), raw.sfreq, durH)
       IN  /\ work' = f
           /\ IF ev.ok
              THEN /\ events' = ev.ts
                   /\ nper' = EpochSamples(raw.sfreq, durH)
                   /\ epochs' = EpochSelection(ev.ts, Len(f), EpochSamples(raw.sfreq, durH))
                   /\ pc' = "reject"
                   /\ stages' = Append(stages, "segment")
                   /\ UNCHANGED <<err, errAt>>
              ELSE /\ Raise("ValueError", "make_fixed_length_events")
                   /\ UNCHANGED <<events, nper, epochs, stages>>
           /\ raw' = IF FilterOperand = "caller" THEN [raw EXCEPT !.data = f] ELSE raw
    /\ UNCHANGED <<inputs, aux, df, rejvars, report, rows, results>>

\* -------------------------------------------------------------- rejection
\* the 0-based sample indices held by the epoch of event e
EpochSpan(e) == events[e + 1] .. (events[e + 1] + nper - 1)

\* peak-to-peak amplitude of the epoch of event e
Ptp(e) ==
    LET vals == {work[i + 1] : i \in EpochSpan(e)}
    IN  (CHOOSE a \in vals : \A b \in vals : a >= b)
        - (CHOOSE a \in vals : \A b \in vals : a <= b)

\* autoreject fits a peak-to-peak threshold; which one is the library's business
Thresholds == 0..MaxAmp

\* get_rejection_threshold estimates the threshold from the epochs it is given:
\* with no epoch there is nothing to estimate from and the library raises
CanFitThreshold(sel) == sel # <<>>

\* Epochs.drop_bad(reject): drops the epochs whose peak-to-peak exceeds the threshold
DropBad(sel, th) == SelectIdx(sel, {e \in Range(sel) : Ptp(e) <= th})

\* mutant: the dropped indices taken one-based
SparseBadEpochs_OneBased(eps, cl) == [i \in 0..(Len(eps) - 1) |-> (i + 1) \notin Range(cl)]

\* lines 91-93: bad_epochs[i] for i in range(len(epochs)), i not in epochs_clean.selection
SparseBadEpochs(eps, cl) == [i \in 0..(Len(eps) - 1) |-> i \notin Range(cl)]

\* AutoReject's RejectLog.bad_epochs: by position, the epochs fit_transform dropped
AutoRejectBadEpochs(eps, cl) == [i \in 0..(Len(eps) - 1) |-> eps[i + 1] \notin Range(cl)]

\* cv_folds = min(5, n_epochs // 2)
CvFolds(n) == Min2(MaxCvFolds, n \div 2)

\* mutant: the post-pass run on the segmented epochs instead of the survivors
PostPassInput_Original == epochs

\* the epochs handed to the second get_rejection_threshold / drop_bad (line 124-126)
PostPassInput == clean

\* mutant: the boundary count takes the sparse branch
UseSparse_Inclusive(n) == n <= MinEpochsForAutoReject

\* line 78: if n_epochs < 10
UseSparse(n) == n < MinEpochsForAutoReject

\* line 122: if n_epochs >= 10
NeedsPostPass(n) == n >= MinEpochsForAutoReject

AfterPreprocess ==
    CASE driver = "psd_main" -> "psd"
      [] OTHER -> "report"

\* lines 78-99: too few epochs, one global peak-to-peak pass
RejectSparse ==
    /\ pc = "reject"
    /\ UseSparse(Len(epochs))
    /\ CanFitThreshold(epochs)
    /\ \E th \in Thresholds :
         LET cl == DropBad(epochs, th)
         IN  /\ clean' = cl
             /\ bad_epochs' = SparseBadEpochs(epochs, cl)
             /\ passes' = Append(passes, [kind |-> "global", basis |-> epochs,
                                           thresh |-> th, out |-> cl, cv |-> 0,
                                           n_interpolate |-> <<>>])
    /\ pc' = IF NeedsPostPass(Len(epochs)) THEN "postpass" ELSE AfterPreprocess
    /\ stages' = Append(stages, "reject")
    /\ UNCHANGED <<inputs, aux, df, err, errAt, raw, segvars, report, rows, results>>

\* line 106: n_interpolate=[1, 2, 3, 4], the candidate counts of channels to
\* interpolate that AutoReject's cross-validated search is given
NInterpolate == <<1, 2, 3, 4>>

\* lines 100-113: AutoReject.fit_transform(epochs, return_log=True)
RejectAdaptive ==
    /\ pc = "reject"
    /\ ~UseSparse(Len(epochs))
    /\ \E th \in Thresholds :
         LET cl == DropBad(epochs, th)
         IN  /\ clean' = cl
             /\ bad_epochs' = AutoRejectBadEpochs(epochs, cl)
             /\ passes' = Append(passes, [kind |-> "autoreject", basis |-> epochs,
                                           thresh |-> th, out |-> cl,
                                           cv |-> CvFolds(Len(epochs)),
                                           n_interpolate |-> NInterpolate])
    /\ pc' = IF NeedsPostPass(Len(epochs)) THEN "postpass" ELSE AfterPreprocess
    /\ stages' = Append(stages, "reject")
    /\ UNCHANGED <<inputs, aux, df, err, errAt, raw, segvars, report, rows, results>>

\* lines 122-126: threshold from the surviving epochs, drop_bad on them in place;
\* the reject_log returned is the one of the first pass
PostPass ==
    /\ pc = "postpass"
    /\ CanFitThreshold(PostPassInput)
    /\ \E th \in Thresholds :
         LET cl == DropBad(PostPassInput, th)
         IN  /\ clean' = cl
             /\ passes' = Append(passes, [kind |-> "postpass", basis |-> PostPassInput,
                                           thresh |-> th, out |-> cl, cv |-> 0,
                                           n_interpolate |-> <<>>])
    /\ pc' = AfterPreprocess
    /\ stages' = Append(stages, "postpass")
    /\ UNCHANGED <<inputs, aux, df, err, errAt, raw, segvars, bad_epochs, report, rows, results>>

\* get_rejection_threshold / AutoReject raise inside the library
RejectFails ==
    /\ pc \in {"reject", "postpass"}
    /\ Raise("LibraryError", "autoreject")
    /\ UNCHANGED <<inputs, aux, df, raw, segvars, rejvars, report, rows, results, stages>>

\* get_preprocessing_report (preprocessing.py 153-160)
BadCount == Cardinality({i \in DOMAIN bad_epochs : bad_epochs[i]})

GetPreprocessingReport ==
    /\ pc = "report"
    /\ report' = [n_epochs_final |-> Len(clean), n_epochs_rejected |-> BadCount]
    /\ results' = IF driver = "process_eeg" THEN results \cup {"preprocessing"} ELSE results
    /\ pc' = IF driver = "process_eeg" THEN "psd" ELSE "done"
    /\ UNCHANGED <<inputs, aux, df, err, errAt, raw, segvars, rejvars, rows, stages>>

\* ------------------------------------------------------ spectral stages
\* compute_psd_welch: one PSD row per surviving epoch
ComputePsdWelch ==
    /\ pc = "psd"
    /\ rows' = [rows EXCEPT !.psd = Len(clean)]
    /\ pc' = "band"
    /\ stages' = Append(stages, "psd")
    /\ UNCHANGED <<inputs, aux, df, err, errAt, raw, segvars, rejvars, report, results>>

\* Epochs.compute_psd / psd_welch raise inside mne
ComputePsdWelchFails ==
    /\ pc = "psd"
    /\ Raise("LibraryError", "compute_psd_welch")
    /\ UNCHANGED <<inputs, aux, df, raw, segvars, rejvars, report, rows, results, stages>>

\* compute_band_powers: np.trapz over the frequency axis keeps the epoch rows
ComputeBandPowers ==
    /\ pc = "band"
    /\ rows' = [rows EXCEPT !.band = rows.psd]
    /\ pc' = "ratios"
    /\ stages' = Append(stages, "band_powers")
    /\ UNCHANGED <<inputs, aux, df, err, errAt, raw, segvars, rejvars, report, results>>

\* def compute_ratios(band_powers): one positional parameter
ComputeRatiosParams == 1

\* positional arguments at the call site: process_eeg.py:149 passes
\* (band_powers, channel_names), psd_analysis.py:273 passes (band_powers)
ProcessEegRatioArgs == 2
RatioCallArgs == IF driver = "process_eeg" THEN ProcessEegRatioArgs ELSE 1

\* np.min / np.max of a zero-size array raise ValueError (lines 186, 191)
RatioStatsRaise(n) == n = 0

ComputeRatios ==
    /\ pc = "ratios"
    /\ IF RatioCallArgs # ComputeRatiosParams
       THEN /\ Raise("TypeError", IF driver = "process_eeg" THEN "process_eeg_recording"
                                  ELSE "psd_main")
            /\ UNCHANGED <<rows, stages>>
       ELSE IF RatioStatsRaise(rows.band)
       THEN /\ Raise("ValueError", "compute_ratios")
            /\ UNCHANGED <<rows, stages>>
       ELSE /\ rows' = [rows EXCEPT !.ratio = rows.band]
            /\ pc' = "save"
            /\ stages' = Append(stages, "ratios")
            /\ UNCHANGED <<err, errAt>>
    /\ UNCHANGED <<inputs, aux, df, raw, segvars, rejvars, report, results>>

\* channels AF7, AF8 (csv_to_edf.py:40)
NChannels == 2

\* create_results_dataframe and the writing of the outputs; process_eeg_recording
\* also draws the summary plot first and writes the per-channel summary
\* channel_names = ['AF7', 'AF8'], which epochs.ch_names returns in this order
ChNames == <<"AF7", "AF8">>

\* mutant: the two loops nested the other way round
CreateResultsDataframe_ChannelMajor(n_epochs, ch_names) ==
    [k \in 1..(n_epochs * Len(ch_names)) |->
        [epoch |-> (k - 1) % n_epochs, channel |-> ch_names[((k - 1) \div n_epochs) + 1]]]

\* the inner loop: for ch_idx, ch_name in enumerate(ch_names): data.append(row)
RowsOfEpoch(epoch_idx, ch_names) ==
    [c \in 1..Len(ch_names) |-> [epoch |-> epoch_idx, channel |-> ch_names[c]]]

\* the outer loop: for epoch_idx in range(n_epochs)
RECURSIVE CreateResultsDataframe(_, _)
CreateResultsDataframe(n_epochs, ch_names) ==
    IF n_epochs = 0 THEN <<>>
    ELSE CreateResultsDataframe(n_epochs - 1, ch_names) \o RowsOfEpoch(n_epochs - 1, ch_names)

SaveResults ==
    /\ pc = "save"
    /\ df' = CreateResultsDataframe(Len(clean), ChNames)
    /\ rows' = [rows EXCEPT !.df = Len(clean) * NChannels]
    /\ results' = IF driver = "process_eeg"
                  THEN results \cup {"plot_file", "results_csv", "summary_csv"}
                  ELSE results
    /\ pc' = "done"
    /\ stages' = Append(stages, "save")
    /\ UNCHANGED <<inputs, aux, err, errAt, raw, segvars, rejvars, report>>

Next ==
    \/ CsvToEdf
    \/ CsvToEdfFails
    \/ Truncate
    \/ Segment
    \/ RejectSparse
    \/ RejectAdaptive
    \/ PostPass
    \/ RejectFails
    \/ GetPreprocessingReport
    \/ ComputePsdWelch
    \/ ComputePsdWelchFails
    \/ ComputeBandPowers
    \/ ComputeRatios
    \/ SaveResults

Spec == Init /\ [][Next]_vars

\* ============================================== band powers on an axis
\* compute_psd_welch, compute_band_powers and compute_ratios applied to one
\* epoch of a two-channel recording, for frequency axes of every resolution.
\* Frequencies are in half Hz, which makes the band edges 0.5 .. 40 Hz integers.

MaxRes == 82

\* FREQ_BANDS, in the order the dict is written and iterated
FREQ_BANDS == <<[name |-> "delta", fmin |-> 1,  fmax |-> 8],
                [name |-> "theta", fmin |-> 8,  fmax |-> 16],
                [name |-> "alpha", fmin |-> 16, fmax |-> 26],
                [name |-> "beta",  fmin |-> 26, fmax |-> 60],
                [name |-> "gamma", fmin |-> 60, fmax |-> 80]>>

Bands == 1..Len(FREQ_BANDS)
BandIdx(name) == CHOOSE b \in Bands : FREQ_BANDS[b].name = name

\* fmin=0.5, fmax=40 of compute_psd_welch
PsdFmin == 1
PsdFmax == 80

\* the spectra tried: power per frequency bin of one (epoch, channel) cell
PsdShapes == {"zero", "flat", "delta", "alpha"}

PsdValue(shape, f) ==
    CASE shape = "zero"  -> 0
      [] shape = "flat"  -> 1
      [] shape = "delta" -> IF f <= 7 THEN 2 ELSE 0
      [] shape = "alpha" -> IF f >= 17 /\ f <= 25 THEN 3 ELSE 0

\* Welch bins are the multiples of the resolution sfreq / n_fft; fmin and fmax
\* keep those inside [fmin, fmax], ascending
FreqAxis(res) ==
    LET ks == {k \in 0..PsdFmax : PsdFmin <= k * res /\ k * res <= PsdFmax}
    IN  IF ks = {} THEN <<>>
        ELSE LET k0 == CHOOSE k \in ks : \A j \in ks : k <= j
             IN  [i \in 1..Cardinality(ks) |-> (k0 + i - 1) * res]

\* freq_mask = (freqs >= fmin) & (freqs <= fmax): the bins a band selects
FreqMask(freqs, band) ==
    SelectIdx(freqs, {f \in Range(freqs) : f >= band.fmin /\ f <= band.fmax})

\* np.trapz(y, dx=dx): dx * sum((y[i] + y[i+1]) / 2), 0.0 for fewer than two
\* points. With dx in half Hz the value here is four times the power.
Trapz(y, dx) ==
    IF Len(y) < 2 THEN 0
    ELSE dx * SumSeq([i \in 1..(Len(y) - 1) |-> y[i] + y[i + 1]])

\* band_power of one cell: np.trapz(psds[:, :, freq_mask], dx=freq_res, axis=2)
BandPower(shape, freqs, band) ==
    LET sel == FreqMask(freqs, band)
    IN  Trapz([i \in 1..Len(sel) |-> PsdValue(shape, sel[i])], freqs[2] - freqs[1])

\* epsilon = 1e-10 is far below one unit of power, so a denominator is kept as
\* a pair: the power p and the number eps of epsilons added to it
Epsilon == 1

\* mutant: epsilon added only where it is not needed
AlphaPlusEpsilon_OnlyNonZero(alpha) == [p |-> alpha, eps |-> IF alpha = 0 THEN 0 ELSE Epsilon]

\* alpha + epsilon
AlphaPlusEpsilon(alpha) == [p |-> alpha, eps |-> Epsilon]

\* numpy's elementwise /: a zero denominator gives inf or nan, not an exception
Divide(num, den) ==
    [num |-> num, den |-> den, finite |-> ~(den.p = 0 /\ den.eps = 0)]

\* the values of the pipeline's variables while another part is examined
PipelineIdle ==
    /\ driver = "psd_main"
    /\ csv = [n |-> 1, wave |-> "flat", sfreq |-> 1]
    /\ seconds = NoSeconds
    /\ durH = DefaultEpochDurH
    /\ pc = "idle"
    /\ err = "none"
    /\ errAt = "none"
    /\ raw = NoRaw
    /\ work = <<>>
    /\ events = <<>>
    /\ nper = 0
    /\ epochs = <<>>
    /\ clean = <<>>
    /\ bad_epochs = <<>>
    /\ passes = <<>>
    /\ report = NoReport
    /\ rows = NoRows
    /\ results = {}
    /\ stages = <<>>
    /\ df = <<>>

pipeline == <<inputs, pc, err, errAt, raw, segvars, rejvars, report, rows, results,
              stages, df>>

SpectrumInit ==
    /\ PipelineIdle
    /\ batch = NoBatch
    /\ loader = NoLoader
    /\ \E res \in 1..MaxRes, s1, s2 \in PsdShapes :
         spectrum = [pc |-> "psd", res |-> res, shapes |-> <<s1, s2>>,
                     freqs |-> <<>>, masks |-> <<>>, band_powers |-> <<>>,
                     ratios |-> <<>>, err |-> "none", errAt |-> "none"]

\* compute_psd_welch: the axis of the chosen resolution; no bin inside
\* [fmin, fmax] ends the call (freqs[0] at line 91, if not inside mne before)
WelchAxis ==
    /\ spectrum.pc = "psd"
    /\ LET fr == FreqAxis(spectrum.res)
       IN  spectrum' = IF fr = <<>>
                       THEN [spectrum EXCEPT !.pc = "failed", !.err = "IndexError",
                                             !.errAt = "compute_psd_welch"]
                       ELSE [spectrum EXCEPT !.pc = "band", !.freqs = fr]
    /\ UNCHANGED <<pipeline, batch, loader>>

\* compute_band_powers: freqs[1] - freqs[0] is read inside the loop, before
\* the integration of the first band
BandPowersOnAxis ==
    /\ spectrum.pc = "band"
    /\ LET fr == spectrum.freqs
       IN  spectrum' =
             IF Len(fr) < 2
             THEN [spectrum EXCEPT !.pc = "failed", !.err = "IndexError",
                                   !.errAt = "compute_band_powers"]
             ELSE [spectrum EXCEPT
                     !.pc = "ratios",
                     !.masks = [b \in Bands |-> FreqMask(fr, FREQ_BANDS[b])],
                     !.band_powers = [c \in 1..Len(spectrum.shapes) |->
                         [b \in Bands |-> BandPower(spectrum.shapes[c], fr, FREQ_BANDS[b])]]]
    /\ UNCHANGED <<pipeline, batch, loader>>

\* compute_ratios: dar = delta / (alpha + epsilon), tar = theta / (alpha + epsilon)
RatiosOnBands ==
    /\ spectrum.pc = "ratios"
    /\ spectrum' = [spectrum EXCEPT
         !.pc = "done",
         !.ratios = [c \in 1..Len(spectrum.shapes) |->
             LET bp == spectrum.band_powers[c]
             IN  [DAR |-> Divide(bp[BandIdx("delta")], AlphaPlusEpsilon(bp[BandIdx("alpha")])),
                  TAR |-> Divide(bp[BandIdx("theta")], AlphaPlusEpsilon(bp[BandIdx("alpha")]))]]]
    /\ UNCHANGED <<pipeline, batch, loader>>

SpectrumNext ==
    \/ WelchAxis
    \/ BandPowersOnAxis
    \/ RatiosOnBands

SpectrumSpec == SpectrumInit /\ [][SpectrumNext]_vars

\* ================================================== csv_to_edf's sampling rate
\* The rate csv_to_edf measures from the timestamps, the standard rate it picks
\* and what becomes of the sample count. Rates are in Hz.

MaxCsvRows == 12

\* the rates measured from the timestamp column; 0 stands for a mean timestamp
\* difference that is not > 0 (or not a number, with a single row)
CalcRates == {0, 100, 220, 250, 253, 255, 256, 300, 400, 500, 506, 512, 600}

\* line 47: the fallback when the mean difference is not positive
DefaultSfreq == 256

\* calculated_sfreq = 1.0 / mean_diff if mean_diff > 0 else 256.0
CalculatedSfreq(measured) == IF measured > 0 THEN measured ELSE DefaultSfreq

\* standard_rates = [250, 256, 500, 512]
StandardRates == <<250, 256, 500, 512>>

Abs(x) == IF x < 0 THEN -x ELSE x

\* min(standard_rates, key=lambda x: abs(x - calculated_sfreq)): the first of
\* the nearest rates
NearestStandard(calc) ==
    LET best == CHOOSE i \in 1..Len(StandardRates) :
                    \A j \in 1..Len(StandardRates) :
                        \/ Abs(StandardRates[i] - calc) < Abs(StandardRates[j] - calc)
                        \/ Abs(StandardRates[i] - calc) = Abs(StandardRates[j] - calc) /\ i <= j
    IN  StandardRates[best]

\* mne.io.RawArray(data, info): every row of the CSV is a sample, and the rate
\* is the sfreq the info was created with
RawArray(n_rows, info_sfreq) == [n |-> n_rows, sfreq |-> info_sfreq]

\* Raw.resample(sfreq): from the rate the Raw carries to the rate asked for
Resample(r, to) == [n |-> RoundHalfEven(r.n * to, r.sfreq), sfreq |-> to]

LoaderInit ==
    /\ PipelineIdle
    /\ spectrum = NoSpectrum
    /\ batch = NoBatch
    /\ \E n \in 1..MaxCsvRows, m \in CalcRates :
         loader = [pc |-> "rate", n_rows |-> n, measured |-> m, calculated_sfreq |-> 0,
                   sfreq |-> 0, raw |-> RawArray(0, 0), resampled |-> FALSE]

\* lines 44-52: the measured rate and the standard rate chosen for it
ChooseRate ==
    /\ loader.pc = "rate"
    /\ loader' = [loader EXCEPT !.pc = "array",
                                !.calculated_sfreq = CalculatedSfreq(loader.measured),
                                !.sfreq = NearestStandard(CalculatedSfreq(loader.measured))]
    /\ UNCHANGED <<pipeline, spectrum, batch>>

\* lines 69-80: create_info(sfreq=sfreq) and RawArray(data, info)
MakeRawArray ==
    /\ loader.pc = "array"
    /\ loader' = [loader EXCEPT !.pc = "resample",
                                !.raw = RawArray(loader.n_rows, loader.sfreq)]
    /\ UNCHANGED <<pipeline, spectrum, batch>>

\* lines 84-86: if calculated_sfreq != sfreq: raw.resample(sfreq, npad='auto')
ResampleIfNeeded ==
    /\ loader.pc = "resample"
    /\ loader' = IF loader.calculated_sfreq # loader.sfreq
                 THEN [loader EXCEPT !.pc = "done", !.resampled = TRUE,
                                     !.raw = Resample(loader.raw, loader.sfreq)]
                 ELSE [loader EXCEPT !.pc = "done"]
    /\ UNCHANGED <<pipeline, spectrum, batch>>

LoaderNext ==
    \/ ChooseRate
    \/ MakeRawArray
    \/ ResampleIfNeeded

LoaderSpec == LoaderInit /\ [][LoaderNext]_vars

\* ============================================== batch_process_recordings
\* A file name is the sequence of its parts; the last part is the suffix.
Files == {<<"eeg_recording_", "a", ".csv">>,
          <<"eeg_recording_", "b", ".csv">>,
          <<"session", ".csv">>,
          <<"eeg_recording_", "c", ".txt">>}

HasCsvSuffix(f) == f[Len(f)] = ".csv"

\* input_dir.glob('eeg_recording_*.csv')
MatchesGlob(f) == f[1] = "eeg_recording_" /\ f[Len(f)] = ".csv"

\* glob yields the matching entries in the order the file system lists them
Listings(S) ==
    {s \in [1..Cardinality(S) -> S] : \A i, j \in 1..Cardinality(S) : i # j => s[i] # s[j]}

\* how a call of process_eeg_recording can end: the exceptions the pipeline
\* raises, and a return only if the call of compute_ratios fits its signature
ProcessEegOutcomes ==
    {"TypeError", "ValueError", "LibraryError"}
        \cup (IF ProcessEegRatioArgs = ComputeRatiosParams THEN {"returned"} ELSE {})

\* mutant: a handler for ValueError only
Caught_ValueErrorOnly(kind) == kind = "ValueError"

\* except Exception as e: every exception class the pipeline raises derives
\* from Exception
Caught(kind) == kind \in {"TypeError", "ValueError", "LibraryError"}

\* the dict appended for a file: 'file', 'status', and 'error' for a failure
ResultEntry(f, outcome) ==
    [file |-> f, status |-> IF outcome = "returned" THEN "success" ELSE "failed",
     error |-> IF outcome = "returned" THEN "none" ELSE outcome]

CountStatus(res, st) == Cardinality({k \in 1..Len(res) : res[k].status = st})

BatchInit ==
    /\ PipelineIdle
    /\ spectrum = NoSpectrum
    /\ loader = NoLoader
    /\ \E d \in SUBSET Files :
         batch = [pc |-> "glob", dir |-> d, csv_files |-> <<>>, results |-> <<>>,
                  successful |-> -1, failed |-> -1, err |-> "none"]

\* lines 37-41: the files to process; none found ends the call
BatchGlob ==
    /\ batch.pc = "glob"
    /\ \E l \in Listings({f \in batch.dir : MatchesGlob(f)}) :
         batch' = [batch EXCEPT !.csv_files = l,
                                !.pc = IF l = <<>> THEN "empty" ELSE "loop"]
    /\ UNCHANGED <<pipeline, spectrum, loader>>

\* lines 49-67: one pass of the loop body, for the next file of csv_files
BatchProcessFile ==
    /\ batch.pc = "loop"
    /\ Len(batch.results) < Len(batch.csv_files)
    /\ \E outcome \in ProcessEegOutcomes :
         LET f == batch.csv_files[Len(batch.results) + 1]
         IN  batch' = IF outcome = "returned" \/ Caught(outcome)
                      THEN [batch EXCEPT !.results = Append(@, ResultEntry(f, outcome))]
                      ELSE [batch EXCEPT !.pc = "failed", !.err = outcome]
    /\ UNCHANGED <<pipeline, spectrum, loader>>

\* lines 74-79: the counts of the summary, after the last file
BatchSummary ==
    /\ batch.pc = "loop"
    /\ Len(batch.results) = Len(batch.csv_files)
    /\ batch' = [batch EXCEPT !.pc = "done",
                              !.successful = CountStatus(batch.results, "success"),
                              !.failed = CountStatus(batch.results, "failed")]
    /\ UNCHANGED <<pipeline, spectrum, loader>>

BatchNext ==
    \/ BatchGlob
    \/ BatchProcessFile
    \/ BatchSummary

BatchSpec == BatchInit /\ [][BatchNext]_vars

\* ================================================================ claims
\* preprocess_raw has returned (epochs_clean, reject_log) to its caller
PreprocessReturned == pc \in {"report", "psd", "band", "ratios", "save", "done"}

\* a is b with some elements left out, the order kept (b has no repeats)
OrderedSubseq(a, b) == a = SelectIdx(b, Range(a))

\* survivors after pass k; pass 0 is the segmentation itself
Survivors(k) == IF k = 0 THEN epochs ELSE passes[k].out

PassKinds == [k \in 1..Len(passes) |-> passes[k].kind]

\* C1: once preprocess_raw has returned, every segmented epoch that is absent
\* from clean_epochs is flagged in reject_log.bad_epochs, under both policies.
C1_ExcludedEpochsAreLogged ==
    PreprocessReturned =>
        \A p \in 0..(Len(epochs) - 1) :
            epochs[p + 1] \notin Range(clean) => bad_epochs[p]

\* C2: each rejection pass leaves an order-preserving subset of the survivors
\* of the pass before it, the survivor count never grows, and clean_epochs is
\* an order-preserving subset of the segmented epochs.
C2_SurvivorsShrinkInOrder ==
    /\ \A k \in 1..Len(passes) :
          /\ OrderedSubseq(Survivors(k), Survivors(k - 1))
          /\ Len(Survivors(k)) <= Len(Survivors(k - 1))
    /\ (Len(passes) > 0 => clean = Survivors(Len(passes)))
    /\ OrderedSubseq(clean, epochs)

\* both passes of the adaptive policy dropped something and something is left
C2_Witness ==
    /\ PreprocessReturned
    /\ Len(passes) = 2
    /\ Len(passes[1].out) < Len(epochs)
    /\ Len(clean) < Len(passes[1].out)
    /\ Len(clean) > 0

StageOrder == <<"convert", "truncate", "segment", "reject", "postpass",
                "psd", "band_powers", "ratios", "save">>

\* C3: process_eeg_recording, on a recording that leaves at least one clean
\* epoch and with no library error, runs its stages in order and ends at the
\* save step with the results CSV and summary CSV paths in its result.
C3_PipelineReachesSave ==
    driver = "process_eeg" =>
        /\ OrderedSubseq(stages, StageOrder)
        /\ (pc = "failed" /\ Len(clean) >= 1 => err = "LibraryError")
        /\ (pc = "done" => {"results_csv", "summary_csv"} \subseteq results)

DownstreamFns == {"compute_psd_welch", "compute_band_powers", "compute_ratios",
                  "create_results_dataframe"}

\* C4: when no epoch survives rejection, none of compute_psd_welch,
\* compute_band_powers, compute_ratios, create_results_dataframe raises of its
\* own accord, and the tables they produce have zero rows.
C4_EmptySurvivorsComplete ==
    (PreprocessReturned \/ pc = "failed") /\ Len(passes) > 0 /\ Len(clean) = 0 =>
        /\ (errAt \in DownstreamFns => err = "LibraryError")
        /\ rows.band \in {-1, 0}
        /\ rows.ratio \in {-1, 0}
        /\ rows.df \in {-1, 0}

\* segmentation has produced its epochs
Segmented == "segment" \in Range(stages)

\* C5: segmentation yields floor(N / n_per_epoch) epochs of exactly n_per_epoch
\* samples each, consecutive from sample 0 and pairwise disjoint.
C5_SegmentationPartition ==
    Segmented /\ NPerEpoch(raw.sfreq, durH) >= 1 =>
        LET s == NPerEpoch(raw.sfreq, durH)
        IN  /\ Len(epochs) = Len(work) \div s
            /\ nper = s
            /\ \A p \in 1..Len(epochs) : events[epochs[p] + 1] = (p - 1) * s
            /\ \A e1, e2 \in Range(epochs) :
                   e1 # e2 => EpochSpan(e1) \cap EpochSpan(e2) = {}

\* C6: with epoch_duration <= 0, or with fewer samples than one epoch duration,
\* segmentation fails with a parameter error (ValueError) before any rejection
\* or spectral stage; no epoch set, empty or partial, is produced.
C6_BadSegmentationFailsEarly ==
    work # <<>> /\ (durH <= 0 \/ Len(work) < NPerEpoch(raw.sfreq, durH)) =>
        /\ pc = "failed"
        /\ err = "ValueError"
        /\ errAt = "make_fixed_length_events"
        /\ ~Segmented
        /\ epochs = <<>>
        /\ passes = <<>>
        /\ rows = NoRows

\* a buffer shorter than one epoch of positive duration was refused
C6_Witness ==
    /\ work # <<>>
    /\ durH > 0
    /\ Len(work) < NPerEpoch(raw.sfreq, durH)
    /\ pc = "failed"

\* the conversion did not fail and the truncation step has been passed
TruncationDone == driver = "process_eeg" /\ pc \notin {"convert", "truncate"}
                  /\ errAt # "csv_to_edf"

\* C7: with seconds given and <= 0, process_eeg_recording fails with a
\* parameter error (ValueError) after the conversion; preprocessing, PSD, band
\* powers, ratios and saving never run and no result is returned.
C7_NonPositiveSecondsFails ==
    TruncationDone /\ seconds.given /\ seconds.val <= 0 =>
        /\ pc = "failed"
        /\ err = "ValueError"
        /\ errAt = "process_eeg_recording"
        /\ stages = <<"convert">>
        /\ work = <<>>
        /\ passes = <<>>
        /\ rows = NoRows
        /\ results \cap {"preprocessing", "plot_file", "results_csv", "summary_csv"} = {}

C7_Witness ==
    /\ TruncationDone
    /\ seconds.given
    /\ seconds.val = 0
    /\ pc = "failed"

\* the Raw as csv_to_edf returned it, i.e. what runs without --seconds process
LoadedData == [i \in 1..csv.n |-> Wave(csv.wave, i - 1)]

\* C8: with seconds beyond the recording's total duration, the crop uses the
\* total duration, raises nothing, and leaves exactly the samples a run without
\* the truncation parameter processes.
C8_LongSecondsClampToTotal ==
    TruncationDone /\ seconds.given /\ seconds.val * csv.sfreq > csv.n - 1 =>
        /\ ~(err = "ValueError" /\ errAt \in {"crop", "process_eeg_recording"})
        /\ "truncate" \in Range(stages)
        /\ raw.data = LoadedData

C8_Witness ==
    /\ TruncationDone
    /\ seconds.given
    /\ seconds.val * csv.sfreq > csv.n - 1
    /\ csv.n > 1
    /\ pc = "segment"

\* C9: the policy depends on the segmented epoch count n alone: n < 10 runs the
\* single global pass and nothing else; n >= 10 runs the cross-validated pass
\* and then exactly one post-pass, fitted to the survivors of the first.
C9_PolicyByEpochCount ==
    /\ \A k \in 1..Len(passes) :
          /\ passes[k].kind = "global" => Len(epochs) < MinEpochsForAutoReject /\ k = 1
          /\ passes[k].kind = "autoreject" =>
                 Len(epochs) >= MinEpochsForAutoReject /\ k = 1
          /\ passes[k].kind = "postpass" =>
                 /\ k = 2
                 /\ passes[1].kind = "autoreject"
                 /\ passes[k].basis = passes[1].out
    /\ PreprocessReturned =>
          PassKinds = IF Len(epochs) < MinEpochsForAutoReject
                      THEN <<"global">>
                      ELSE <<"autoreject", "postpass">>

\* exactly ten epochs: the adaptive pass dropped some, the post-pass ran on the rest
C9_Witness ==
    /\ PreprocessReturned
    /\ Len(epochs) = MinEpochsForAutoReject
    /\ PassKinds = <<"autoreject", "postpass">>
    /\ Len(passes[2].basis) < Len(epochs)

\* C10: under the sparse policy the kept epochs and the flagged epochs add up
\* to the segmented epochs, and bad_epochs has one entry per segmented epoch.
C10_SparseCountsAddUp ==
    PreprocessReturned /\ Len(epochs) < MinEpochsForAutoReject =>
        /\ Len(clean) + BadCount = Len(epochs)
        /\ DOMAIN bad_epochs = 0..(Len(epochs) - 1)

\* a sparse run that kept some epochs and dropped others
C10_Witness ==
    /\ PreprocessReturned
    /\ Len(epochs) < MinEpochsForAutoReject
    /\ Len(clean) > 0
    /\ BadCount > 0
\* the caller's Raw at the moment preprocess_raw is called: what csv_to_edf
\* returned, cropped when --seconds was given
RawAtCall ==
    LET r == [data |-> LoadedData, sfreq |-> csv.sfreq]
    IN  IF seconds.given THEN Crop(r, TmaxTicks(seconds.val, r)).raw ELSE r

\* preprocess_raw has run its filter, whether it went on to return or to raise
PreprocessCalled == work # <<>>

\* C12: preprocess_raw leaves the caller's Raw alone: once it has been called,
\* and whether it returned or raised, the caller still holds the samples and
\* the sampling rate it passed in, although the filter changed the working copy.
C12_CallerRawUntouched ==
    PreprocessCalled => raw = RawAtCall

C12_Witness ==
    /\ PreprocessCalled
    /\ work # raw.data
    /\ err = "ValueError"
    /\ errAt = "make_fixed_length_events"

\* position of a channel in ch_names
ChIdx(c) == CHOOSE k \in 1..Len(ChNames) : ChNames[k] = c

SavedTable == pc = "done" /\ "save" \in Range(stages)

\* C18: the results table holds one row per (epoch, channel) of the surviving
\* epochs: len(clean) * n_channels rows, no pair twice, no pair missing, epochs
\* 0..len(clean)-1 in order and the channels in channel order inside an epoch.
C18_OneRowPerEpochChannel ==
    SavedTable =>
        /\ Len(df) = Len(clean) * Len(ChNames)
        /\ \A i, j \in 1..Len(df) : i < j =>
               \/ df[i].epoch < df[j].epoch
               \/ df[i].epoch = df[j].epoch /\ ChIdx(df[i].channel) < ChIdx(df[j].channel)
        /\ \A e \in 0..(Len(clean) - 1) : \A c \in Range(ChNames) :
               \E i \in 1..Len(df) : df[i] = [epoch |-> e, channel |-> c]
        /\ {df[i].epoch : i \in 1..Len(df)} = 0..(Len(clean) - 1)

C18_Witness ==
    /\ SavedTable
    /\ Len(clean) >= 2
    /\ Len(df) = 2 * Len(clean)
\* C16: every candidate interpolation count handed to the cross-validated
\* search is one of 1..4 and none exceeds the number of channels of the
\* recording (two, AF7 and AF8).
C16_CandidatesWithinChannels ==
    \A k \in 1..Len(passes) : passes[k].kind = "autoreject" =>
        Range(passes[k].n_interpolate) = {c \in 1..4 : c <= Len(ChNames)}
BandsDone == spectrum.pc \in {"ratios", "done"}

\* C13: no frequency bin is selected by two bands: the bins the five masks of
\* compute_band_powers select are pairwise disjoint.
C13_BandsDisjoint ==
    BandsDone => \A a, b \in Bands : a # b =>
        Range(spectrum.masks[a]) \cap Range(spectrum.masks[b]) = {}

\* compute_band_powers has been called on the axis compute_psd_welch returned
BandsCalled == spectrum.pc \in {"ratios", "done"} \/ spectrum.errAt = "compute_band_powers"

\* C14: on every frequency axis compute_band_powers returns, without an error,
\* 0 for each cell of a band that selects no bin, and five zeros for a cell
\* whose spectrum is zero everywhere.
C14_EmptyBandIsZero ==
    BandsCalled =>
        /\ spectrum.err = "none"
        /\ \A b \in Bands : FreqMask(spectrum.freqs, FREQ_BANDS[b]) = <<>> =>
               \A c \in 1..Len(spectrum.shapes) : spectrum.band_powers[c][b] = 0
        /\ \A c \in 1..Len(spectrum.shapes) : spectrum.shapes[c] = "zero" =>
               SumSeq(spectrum.band_powers[c]) = 0

\* C15: the alpha denominator of both ratios carries epsilon whatever alpha
\* is; with alpha = 0 the ratios are delta / epsilon and theta / epsilon, both
\* finite.
C15_EpsilonAlwaysAdded ==
    spectrum.pc = "done" =>
        \A c \in 1..Len(spectrum.shapes) :
            LET bp == spectrum.band_powers[c]
                r  == spectrum.ratios[c]
            IN  /\ r.DAR.den.eps = Epsilon /\ r.TAR.den.eps = Epsilon
                /\ r.DAR.den.p = bp[BandIdx("alpha")] /\ r.TAR.den.p = bp[BandIdx("alpha")]
                /\ r.DAR.num = bp[BandIdx("delta")] /\ r.TAR.num = bp[BandIdx("theta")]
                /\ (bp[BandIdx("alpha")] = 0 => r.DAR.finite /\ r.TAR.finite)

C15_Witness ==
    /\ spectrum.pc = "done"
    /\ \E c \in 1..Len(spectrum.shapes) :
         /\ spectrum.band_powers[c][BandIdx("alpha")] = 0
         /\ spectrum.band_powers[c][BandIdx("delta")] > 0
         /\ spectrum.ratios[c].DAR.finite
\* C19: a recording whose measured rate differs from the standard rate chosen
\* is resampled: the Raw returned holds the sample count scaled by standard /
\* measured (its duration is kept), not the rows of the CSV under a new label.
C19_ResampledToStandard ==
    loader.pc = "done" /\ loader.calculated_sfreq # loader.sfreq =>
        /\ loader.raw.sfreq = loader.sfreq
        /\ loader.raw.n = RoundHalfEven(loader.n_rows * loader.sfreq, loader.calculated_sfreq)
BatchReturned == batch.pc \in {"done", "empty"}

\* C17: when batch_process_recordings returns, every file of the directory
\* whose name ends in .csv has been passed to process_eeg_recording exactly
\* once and has exactly one entry in results.
C17_EveryCsvProcessedOnce ==
    BatchReturned =>
        \A f \in batch.dir : HasCsvSuffix(f) =>
            Cardinality({k \in 1..Len(batch.results) : batch.results[k].file = f}) = 1

\* C20: an exception raised while one file is processed never leaves the
\* loop: the k-th result belongs to the k-th matched file and is 'success' or
\* 'failed', and at the summary every matched file has its result and
\* successful + failed is the number of matched files.
C20_FailureDoesNotStopBatch ==
    /\ batch.pc # "failed"
    /\ batch.pc \in {"loop", "done"} =>
          /\ Len(batch.results) <= Len(batch.csv_files)
          /\ \A k \in 1..Len(batch.results) :
                /\ batch.results[k].file = batch.csv_files[k]
                /\ batch.results[k].status \in {"success", "failed"}
    /\ batch.pc = "done" =>
          /\ Len(batch.results) = Len(batch.csv_files)
          /\ batch.successful + batch.failed = Len(batch.csv_files)

C20_Witness ==
    /\ batch.pc = "done"
    /\ Len(batch.csv_files) >= 2
    /\ batch.results[1].status = "failed"
    /\ Len(batch.results) = Len(batch.csv_files)
\* get_preprocessing_report has produced its counts
Reported == report # NoReport

\* C21: the 'Original epochs' figure, n_epochs_rejected + n_epochs_final of
\* the preprocessing report, is the number of epochs segmentation produced,
\* under the sparse and under the adaptive policy with its post-pass.
C21_OriginalEpochsIsSegmentedCount ==
    Reported => report.n_epochs_rejected + report.n_epochs_final = Len(epochs)
====
